---- MODULE Spec2Model ----
(***************************************************************************)
(* A model of backuper (src/src/main.rs): the run of `main` for one OS     *)
(* target.  Strings the program builds with format!/join are modelled as   *)
(* records or sequences of their parts; external outcomes (environment,    *)
(* child processes, the clock, the mail transport) are nondeterministic.   *)
(***************************************************************************)
EXTENDS Integers, Sequences, FiniteSets, TLC

\* ------------------------------------------------------------------ bounds
\* The clock is sampled once per run: every task of the run is measured to take
\* the same time, 0 s or MaxDur s, and the run as a whole no less than a task.
MaxDur == 61

Durations == {0, MaxDur}

\* ------------------------------------------------------- static configuration
Home(p) == [kind |-> "Home", path |-> p]

Root(p) == [kind |-> "Root", path |-> p]

MAC_BACKUP_DIRS ==
    << Home("Documents"), Home("Pictures"), Home("Music"), Home("Movies"),
       Home("Library/CloudStorage/Dropbox"),
       Home("Library/Application Support/Anki2") >>

WINDOWS_BACKUP_DIRS ==
    << Home("Documents"), Home("Pictures"), Home("Music"), Home("Videos"),
       Home("ghidra_scripts"), Home("AppData\\Roaming"),
       Home("AppData\\Local\\osu!"), Home("AppData\\Local\\osulazer"),
       Home("AppData\\Local\\OpenTabletDriver"), Home("VirtualBox VMs"),
       Home("Dropbox"),
       Root("C:\\Program Files (x86)\\Steam\\steamapps\\common"),
       Root("C:\\tools") >>

EXCLUDE_PATTERNS ==
    << "node_modules/**", ".cache/**", ".vscode/**", ".npm/**",
       ".vscode-server/**", "*.photoslibrary", ".DS_Store", "build*/**" >>

\* Option<T>: None is the empty sequence, Some(v) the one-element sequence.
None == << >>

Some(v) == << v >>

\* struct ResticConfig
ResticConfig(repo, pw, key_id, secret) ==
    [ restic_repository     |-> repo,
      restic_password       |-> pw,
      aws_access_key_id     |-> key_id,
      aws_secret_access_key |-> secret ]

\* ------------------------------------------------------------ pure helpers
\* backup_dirs_to_strings: the entries are resolved in order; homes[i] is what
\* homedir::my_home() yields when entry i asks for it (None: unavailable).  The
\* first failing Home entry makes the whole result an Err, with no path list.
RECURSIVE ResolveFrom(_, _, _, _)
ResolveFrom(backup_dirs, homes, i, acc) ==
    IF i > Len(backup_dirs) THEN [ok |-> TRUE, val |-> acc, err |-> ""]
    ELSE IF backup_dirs[i].kind = "Home"
         THEN IF homes[i] = None
              THEN [ok |-> FALSE, val |-> << >>, err |-> "Failed to get home dir"]
              ELSE ResolveFrom(backup_dirs, homes, i + 1,
                               Append(acc, << homes[i][1], backup_dirs[i].path >>))
         ELSE ResolveFrom(backup_dirs, homes, i + 1,
                          Append(acc, << backup_dirs[i].path >>))

backup_dirs_to_strings(backup_dirs, homes) ==
    ResolveFrom(backup_dirs, homes, 1, << >>)

\* Duration::as_secs: the whole seconds of a Duration, its sub-second part dropped
as_secs(duration) == duration.secs

\* pretty_duration with the minutes taken from the whole duration
pretty_duration_whole_minutes(duration_sec) ==
    LET minute  == 60
        hour    == minute * 60
        day     == hour * 24
        seconds == duration_sec % minute
        minutes == duration_sec \div minute
        hours   == (duration_sec % day) \div hour
        days    == duration_sec \div day
        S == << [n |-> seconds, unit |-> "sec"] >>
        M == << [n |-> minutes, unit |-> "min"] >>
        H == << [n |-> hours, unit |-> "hr"] >>
        D == << [n |-> days, unit |-> "d"] >>
    IN  IF days = 0 /\ hours = 0 /\ minutes = 0 THEN S
        ELSE IF days = 0 /\ hours = 0 THEN M \o S
        ELSE IF days = 0 THEN H \o M \o S
        ELSE D \o H \o M \o S

\* pretty_duration: the unit fields that are printed, largest first.
pretty_duration(duration_sec) ==
    LET minute  == 60
        hour    == minute * 60
        day     == hour * 24
        seconds == duration_sec % minute
        minutes == (duration_sec % hour) \div minute
        hours   == (duration_sec % day) \div hour
        days    == duration_sec \div day
        S == << [n |-> seconds, unit |-> "sec"] >>
        M == << [n |-> minutes, unit |-> "min"] >>
        H == << [n |-> hours, unit |-> "hr"] >>
        D == << [n |-> days, unit |-> "d"] >>
    IN  IF days = 0 /\ hours = 0 /\ minutes = 0 THEN S
        ELSE IF days = 0 /\ hours = 0 THEN M \o S
        ELSE IF days = 0 THEN H \o M \o S
        ELSE D \o H \o M \o S

\* gen_exclude_flags collecting the pairs last pattern first
RECURSIVE gen_exclude_flags_reversed(_)
gen_exclude_flags_reversed(patterns) ==
    IF patterns = << >> THEN << >>
    ELSE gen_exclude_flags_reversed(Tail(patterns)) \o << "--exclude", Head(patterns) >>

\* gen_exclude_flags: flat_map(|p| ["--exclude", p])
RECURSIVE gen_exclude_flags(_)
gen_exclude_flags(patterns) ==
    IF patterns = << >> THEN << >>
    ELSE << "--exclude", Head(patterns) >> \o gen_exclude_flags(Tail(patterns))

\* restic_config_to_env
restic_config_to_env(config) ==
    LET base == << << "RESTIC_REPOSITORY", config.restic_repository >>,
                   << "RESTIC_PASSWORD", config.restic_password >> >>
        with_id == IF config.aws_access_key_id # None
                   THEN Append(base, << "AWS_ACCESS_KEY_ID",
                                        config.aws_access_key_id[1] >>)
                   ELSE base
    IN  IF config.aws_secret_access_key # None
        THEN Append(with_id, << "AWS_SECRET_ACCESS_KEY",
                                config.aws_secret_access_key[1] >>)
        ELSE with_id

\* ------------------------------------------------------------- ShBuilder
\* ShBuilder::new
sh(cmd) == [cmd |-> cmd, env |-> << >>, input |-> << >>, check |-> TRUE]

WithEnv(b, env) == [b EXCEPT !.env = env]

WithInput(b, input) == [b EXCEPT !.input = input]

WithCheck(b, check) == [b EXCEPT !.check = check]

\* ------------------------------------------------------------------ tasks
\* One try_task call: the display name and the operation it wraps.
Task(name, kind, dirs, config, extra) ==
    [name |-> name, kind |-> kind, dirs |-> dirs, config |-> config, extra |-> extra]

NoConfig == ResticConfig("", "", None, None)

\* do_windows_upgrades: four commands, each propagated with `?`
do_windows_upgrades ==
    << sh(<< "choco", "upgrade", "all" >>),
       sh(<< "wsl.exe", "sudo", "apt", "update" >>),
       sh(<< "wsl.exe", "sudo", "apt", "upgrade", "-y" >>),
       sh(<< "wsl.exe", "/home/linuxbrew/.linuxbrew/bin/brew", "upgrade" >>) >>

\* do_macos_upgrades
do_macos_upgrades == << sh(<< "brew", "upgrade" >>) >>

\* backup_filesystem_to, after the targets are resolved into `input`
backup_filesystem_to(config, extra_restic_args, input) ==
    LET restic_args == << "restic", "backup", "--files-from", "-" >>
                       \o extra_restic_args \o gen_exclude_flags(EXCLUDE_PATTERNS)
    IN  << WithInput(WithEnv(sh(restic_args), restic_config_to_env(config)), input) >>

\* A string that is read as a colon-separated list is the sequence of its
\* names and of the ":" between them; [..].join(":") interleaves the separator.
RECURSIVE Join(_, _)
Join(parts, sep) ==
    IF parts = << >> THEN << >>
    ELSE IF Len(parts) = 1 THEN << parts[1] >>
    ELSE << parts[1], sep >> \o Join(Tail(parts), sep)

\* Result::unwrap_or_default for a string
unwrap_or_default(opt) == IF opt = None THEN << >> ELSE opt[1]

\* backup_wsl, lines 273-281: the WSLENV value passed on, the one read from the
\* environment with ':' and the credential names joined by ':' pushed onto it
wsl_allow_list(env_wslenv, pairs) ==
    unwrap_or_default(env_wslenv) \o << ":" >>
    \o Join([i \in 1..Len(pairs) |-> pairs[i][1]], ":")

\* backup_wsl: the cleanup command with check disabled, then restic inside WSL
\* with the credential names appended to the WSLENV read from the environment
backup_wsl(config, env_wslenv) ==
    LET pairs  == restic_config_to_env(config)
        wslenv == wsl_allow_list(env_wslenv, pairs)
        env    == Append(pairs, << "WSLENV", wslenv >>)
        args   == << "wsl.exe", "--shell-type", "none",
                     "/home/linuxbrew/.linuxbrew/bin/restic", "backup",
                     "/home/alex", "--tag", "WSL" >>
                  \o gen_exclude_flags(EXCLUDE_PATTERNS)
    IN  << WithCheck(sh(<< "wsl.exe", "killall", "restic" >>), FALSE),
           WithEnv(sh(args), env) >>

\* backup_windows_to: the two try_task calls for one destination
backup_windows_to(windows_config, wsl_config) ==
    << Task("Backup Windows Filesystem (Local)", "fs", WINDOWS_BACKUP_DIRS,
            windows_config, << "--tag", "Windows", "--use-fs-snapshot" >>),
       Task("Backup WSL (Local)", "wsl", << >>, wsl_config, << >>) >>

\* do_backup_windows with the two destinations in the other order
do_backup_windows_cloud_first(cloud_config) ==
    LET windows_to_local_config ==
            ResticConfig("Z:\\restic", cloud_config.restic_password, None, None)
        wsl_to_local_config ==
            ResticConfig("/mnt/c/restic", cloud_config.restic_password, None, None)
    IN  << Task("Windows Upgrades", "win_upgrades", << >>, NoConfig, << >>) >>
        \o backup_windows_to(cloud_config, cloud_config)
        \o backup_windows_to(windows_to_local_config, wsl_to_local_config)

\* do_backup_windows: upgrades, the local destination, the cloud destination
do_backup_windows(cloud_config) ==
    LET windows_to_local_config ==
            ResticConfig("Z:\\restic", cloud_config.restic_password, None, None)
        wsl_to_local_config ==
            ResticConfig("/mnt/c/restic", cloud_config.restic_password, None, None)
    IN  << Task("Windows Upgrades", "win_upgrades", << >>, NoConfig, << >>) >>
        \o backup_windows_to(windows_to_local_config, wsl_to_local_config)
        \o backup_windows_to(cloud_config, cloud_config)

\* do_backup_macos
do_backup_macos(cloud_config) ==
    << Task("macOS Upgrades", "mac_upgrades", << >>, NoConfig, << >>),
       Task("Backup macOS Filesystem", "fs", MAC_BACKUP_DIRS, cloud_config,
            << "--tag", "macOS" >>) >>

\* The commands a task's operation runs, in order.
TaskCmds(task, input, env_wslenv) ==
    CASE task.kind = "win_upgrades" -> do_windows_upgrades
      [] task.kind = "mac_upgrades" -> do_macos_upgrades
      [] task.kind = "fs" -> backup_filesystem_to(task.config, task.extra, input)
      [] task.kind = "wsl" -> backup_wsl(task.config, env_wslenv)

\* ------------------------------------------------------------ environment
\* The variables do_backup reads, in the order it reads them.
ConfigVars ==
    << "BACKUPER_RESTIC_REPOSITORY", "BACKUPER_RESTIC_PASSWORD",
       "BACKUPER_AWS_ACCESS_KEY_ID", "BACKUPER_AWS_SECRET_ACCESS_KEY" >>

ConfigVarSet == { ConfigVars[i] : i \in 1..Len(ConfigVars) }

\* The value a present variable holds.
EnvValue(name) ==
    CASE name = "BACKUPER_RESTIC_REPOSITORY" -> "s3:s3.amazonaws.com/bucket"
      [] name = "BACKUPER_RESTIC_PASSWORD" -> "hunter2"
      [] name = "BACKUPER_AWS_ACCESS_KEY_ID" -> "AKIAEXAMPLE"
      [] name = "BACKUPER_AWS_SECRET_ACCESS_KEY" -> "s3cr3t"

HomeDir == "/home/user"

OsArgs == { None, Some("windows"), Some("macos"), Some("linux") }

\* env::var("WSLENV"): unset, or a list of names already shared with WSL
WslEnvs == { None, Some(<< "USERPROFILE", ":", "EDITOR" >>) }

\* What a child reports to wait_with_output: exit status and captured stderr.
ChildOutputs ==
    { [status |-> s, stderr_utf8 |-> u, stderr |-> "restic: fatal"] :
        s \in {0, 1}, u \in BOOLEAN }

Ok == [ok |-> TRUE, err |-> ""]

Err(e) == [ok |-> FALSE, err |-> e]

NoLog == << >>

\* ------------------------------------------------------------------ state
VARIABLES
    os_arg,     \* env::args(): the first argument, None when absent
    penv,       \* the configuration variables present in the environment
    wslenv_var, \* the environment's WSLENV, None when unset
    task_dur,   \* start.elapsed() as try_task measures it, in seconds
    run_dur,    \* start.elapsed() as main measures it, in seconds
    pc,         \* where the run is
    ti,         \* the task of the sequence being executed (0: none yet)
    ci,         \* the command of the task's operation being run (0: none)
    input,      \* the stdin payload resolved for the task's backup command
    resolved,   \* Some(what backup_dirs_to_strings returned to the task's operation)
    children,   \* spawned children not yet waited for, with their handles
    output,     \* Some(what wait_with_output returned) for the current command
    ret,        \* Some(what ShBuilder::run returned) when the call has returned
    result,     \* what the task's operation returned to try_task
    errors,     \* do_backup's error list
    started,    \* the tasks try_task has started, in order
    invoked,    \* the tasks whose operation try_task has called, in order
    outcomes,   \* what each finished task's operation returned, in order
    spawned,    \* whether the run has spawned a child
    spawn_task, \* the task for whose command spawn() was last called (0: none)
    last_log,   \* the most recent log line
    notif,      \* the notifications main has attempted
    exit_code,  \* the process exit code, None while running
    fn_in,      \* the argument of a function applied on its own
    fn_out      \* Some(its value) once it has been applied

\* What the run is given: its argument, its environment, its clock.
env_vars == << os_arg, penv, wslenv_var, task_dur, run_dur >>

run_vars ==
    << env_vars, pc, ti, ci, input, resolved, children, output, ret, result,
       errors, started, invoked, outcomes, spawned, spawn_task, last_log, notif,
       exit_code >>

fn_vars == << fn_in, fn_out >>

vars == << run_vars, fn_vars >>

is_windows == os_arg = Some("windows")

\* any_to_cloud_config_func reading only the repository and the passphrase
FirstMissing_base_only ==
    IF \E i \in 1..2 : ConfigVars[i] \notin penv
    THEN CHOOSE i \in 1..2 :
            /\ ConfigVars[i] \notin penv
            /\ \A j \in 1..(i - 1) : ConfigVars[j] \in penv
    ELSE 0

\* any_to_cloud_config_func: the first variable that is missing, 0 if none is
FirstMissing ==
    IF \E i \in 1..Len(ConfigVars) : ConfigVars[i] \notin penv
    THEN CHOOSE i \in 1..Len(ConfigVars) :
            /\ ConfigVars[i] \notin penv
            /\ \A j \in 1..(i - 1) : ConfigVars[j] \in penv
    ELSE 0

cloud_config ==
    ResticConfig(EnvValue(ConfigVars[1]), EnvValue(ConfigVars[2]),
                 Some(EnvValue(ConfigVars[3])), Some(EnvValue(ConfigVars[4])))

\* The try_task calls of the run, in program order.
Tasks ==
    IF is_windows THEN do_backup_windows(cloud_config)
    ELSE do_backup_macos(cloud_config)

CurTask == Tasks[ti]

CurCmds == TaskCmds(CurTask, input, wslenv_var)

CurCmd == CurCmds[ci]

\* ShBuilder::run, lines 152-154: how the child's three streams are set up
Stdio == [stdin |-> "piped", stdout |-> "piped", stderr |-> "piped"]

\* The child spawned for the current command: its stream setup and whether the
\* parent still holds the pipe handles.
CurChild ==
    [task |-> ti, cmd |-> ci, stdio |-> Stdio,
     stdin |-> TRUE, stdout |-> TRUE, stderr |-> TRUE]

\* A child dropped without a wait: its pipe handles are closed, it is not reaped.
Dropped(c) == [c EXCEPT !.stdin = FALSE, !.stdout = FALSE, !.stderr = FALSE]

RunInit ==
    /\ pc = "main"
    /\ ti = 0
    /\ ci = 0
    /\ input = << >>
    /\ resolved = None
    /\ children = {}
    /\ output = None
    /\ ret = None
    /\ result = Ok
    /\ errors = << >>
    /\ started = << >>
    /\ invoked = << >>
    /\ outcomes = << >>
    /\ spawned = FALSE
    /\ spawn_task = 0
    /\ last_log = NoLog
    /\ notif = << >>
    /\ exit_code = None

Init ==
    /\ os_arg \in OsArgs
    /\ penv \in SUBSET ConfigVarSet
    /\ wslenv_var \in WslEnvs
    /\ task_dur \in Durations
    /\ run_dur \in { d \in Durations : d >= task_dur }
    /\ RunInit
    /\ fn_in = None
    /\ fn_out = None

\* ---------------------------------------------------------------- strings
\* A log line: log::info!/log::error! with the values it interpolates.
Log(level, msg, args, dur) == [level |-> level, msg |-> msg, args |-> args, dur |-> dur]

\* format!("[{} in {pretty_dur}] {}", name, e)
ErrStr(name, pretty_dur, e) ==
    [bracket |-> TRUE, name |-> name, dur |-> pretty_dur, text |-> e]

\* e.to_string() of the configuration error, as it is
RawErr(e) == [bracket |-> FALSE, name |-> "", dur |-> << >>, text |-> e]

\* do_backup dropping the configuration error
config_error_list_dropped(e) == << >>

\* do_backup, line 363: the list returned when the configuration fails to load
config_error_list(e) == << RawErr(e) >>

\* try_task assigning the error list instead of pushing to it
try_task_errors_assign(error_list, name, dur, res) ==
    IF res.ok THEN error_list
    ELSE << ErrStr(name, pretty_duration(dur), res.err) >>

\* try_task putting the entry in front of the error list
try_task_errors_prepend(error_list, name, dur, res) ==
    IF res.ok THEN error_list
    ELSE << ErrStr(name, pretty_duration(dur), res.err) >> \o error_list

\* try_task's match on the operation's result: what the error list becomes
try_task_errors(error_list, name, dur, res) ==
    IF res.ok THEN error_list
    ELSE Append(error_list, ErrStr(name, pretty_duration(dur), res.err))

\* try_task's log line for the result
try_task_log(name, dur, res) ==
    IF res.ok THEN Log("info", "Task succeeded in", << name >>, pretty_duration(dur))
    ELSE Log("error", "Task failed in", << name >>, pretty_duration(dur))

\* ShBuilder::run, lines 167-173: the result for a collected output
run_result(check, out) ==
    IF check /\ out.status # 0
    THEN IF out.stderr_utf8 THEN Err(out.stderr) ELSE Err("invalid utf-8 sequence")
    ELSE Ok

\* main with the singular wording chosen for no error instead of one
Subject_plural(os_pretty, errs) ==
    IF errs = << >>
    THEN [os |-> os_pretty, outcome |-> "succeeded", count |-> 0, word |-> ""]
    ELSE [os |-> os_pretty, outcome |-> "failed!", count |-> Len(errs),
          word |-> IF Len(errs) = 0 THEN "error" ELSE "errors"]

\* main, lines 421-431: subject and body of the notification
Subject(os_pretty, errs) ==
    IF errs = << >>
    THEN [os |-> os_pretty, outcome |-> "succeeded", count |-> 0, word |-> ""]
    ELSE [os |-> os_pretty, outcome |-> "failed!", count |-> Len(errs),
          word |-> IF Len(errs) = 1 THEN "error" ELSE "errors"]

Body(dur_pretty, errs) ==
    IF errs = << >>
    THEN [completed_in |-> dur_pretty, greeting |-> TRUE, lines |-> << >>]
    ELSE [completed_in |-> dur_pretty, greeting |-> FALSE, lines |-> errs]

\* main returning Err when the error list is not empty
ExitCode_on_errors(delivered) == IF delivered /\ errors = << >> THEN 0 ELSE 1

\* main's return value as the process exit code: an Err from notify()? is 1
ExitCode(delivered) == IF delivered THEN 0 ELSE 1

\* ---------------------------------------------------------------- actions
\* main, lines 404-412: a missing or invalid OS argument returns Err
ParseArgs ==
    /\ pc = "main"
    /\ IF os_arg = None \/ os_arg \notin {Some("windows"), Some("macos")}
       THEN /\ pc' = "exit"
            /\ exit_code' = Some(1)
       ELSE /\ pc' = "do_backup"
            /\ UNCHANGED exit_code
    /\ UNCHANGED env_vars
    /\ UNCHANGED << ti, ci, input, children, output, ret, result,
                    errors, started, invoked, outcomes, spawned, last_log, notif >>
    /\ UNCHANGED << resolved, spawn_task >>
    /\ UNCHANGED fn_vars

\* do_backup, lines 353-366: a missing variable returns the one-element list
LoadConfig ==
    /\ pc = "do_backup"
    /\ IF FirstMissing # 0
       THEN /\ errors' = config_error_list("environment variable not found")
            /\ pc' = "notify"
            /\ UNCHANGED ti
       ELSE /\ errors' = << >>
            /\ pc' = "try_task"
            /\ ti' = 1
    /\ UNCHANGED env_vars
    /\ UNCHANGED << ci, input, children, output, ret, result, started,
                    invoked, outcomes, spawned, last_log, notif, exit_code >>
    /\ UNCHANGED << resolved, spawn_task >>
    /\ UNCHANGED fn_vars

\* try_task, lines 206-209: log, start the clock, call the operation
TryTaskStart ==
    /\ pc = "try_task"
    /\ last_log' = Log("info", "Starting task:", << CurTask.name >>, << >>)
    /\ started' = Append(started, ti)
    /\ invoked' = Append(invoked, ti)
    /\ ci' = 1
    /\ input' = << >>
    /\ pc' = IF CurTask.kind = "fs" THEN "resolve" ELSE "run_log"
    /\ UNCHANGED env_vars
    /\ UNCHANGED << ti, children, output, ret, result, errors,
                    outcomes, spawned, notif, exit_code >>
    /\ UNCHANGED << resolved, spawn_task >>
    /\ UNCHANGED fn_vars

\* backup_filesystem_to going on with the paths resolved before the failure
ResolveTargets_continue ==
    /\ pc = "resolve"
    /\ \E fail_at \in 0..Len(CurTask.dirs) :
        LET homes == [i \in 1..Len(CurTask.dirs) |->
                        IF i = fail_at THEN None ELSE Some(HomeDir)]
            r == backup_dirs_to_strings(CurTask.dirs, homes)
        IN  /\ resolved' = Some(r)
            /\ input' = IF r.ok THEN r.val
                        ELSE backup_dirs_to_strings(
                                 SubSeq(CurTask.dirs, 1, fail_at - 1), homes).val
            /\ pc' = "run_log"
            /\ UNCHANGED result
    /\ UNCHANGED env_vars
    /\ UNCHANGED << ti, ci, children, output, ret, errors, started,
                    invoked, outcomes, spawned, last_log, notif, exit_code >>
    /\ UNCHANGED spawn_task
    /\ UNCHANGED fn_vars

\* backup_filesystem_to, line 260: resolve the targets; the home directory may
\* be unavailable at any entry
ResolveTargets ==
    /\ pc = "resolve"
    /\ \E fail_at \in 0..Len(CurTask.dirs) :
        LET homes == [i \in 1..Len(CurTask.dirs) |->
                        IF i = fail_at THEN None ELSE Some(HomeDir)]
            r == backup_dirs_to_strings(CurTask.dirs, homes)
        IN  /\ resolved' = Some(r)
            /\ IF r.ok
               THEN /\ input' = r.val
                    /\ pc' = "run_log"
                    /\ UNCHANGED result
               ELSE /\ result' = Err(r.err)
                    /\ pc' = "task_end"
                    /\ UNCHANGED input
    /\ UNCHANGED env_vars
    /\ UNCHANGED << ti, ci, children, output, ret, errors, started,
                    invoked, outcomes, spawned, last_log, notif, exit_code >>
    /\ UNCHANGED spawn_task
    /\ UNCHANGED fn_vars

\* ShBuilder::run going to the spawn without its log line
RunLog_silent ==
    /\ pc = "run_log"
    /\ pc' = "run_spawn"
    /\ UNCHANGED env_vars
    /\ UNCHANGED << ti, ci, input, children, output, ret, result, errors, started,
                    invoked, outcomes, spawned, last_log, notif, exit_code >>
    /\ UNCHANGED << resolved, spawn_task >>
    /\ UNCHANGED fn_vars

\* ShBuilder::run, lines 146-147
RunLog ==
    /\ pc = "run_log"
    /\ last_log' = Log("info", "Running:", CurCmd.cmd, << >>)
    /\ pc' = "run_spawn"
    /\ UNCHANGED env_vars
    /\ UNCHANGED << ti, ci, input, children, output, ret, result,
                    errors, started, invoked, outcomes, spawned, notif, exit_code >>
    /\ UNCHANGED << resolved, spawn_task >>
    /\ UNCHANGED fn_vars

\* ShBuilder::run, lines 150-156: spawn with the three pipes, or return Err
RunSpawn ==
    /\ pc = "run_spawn"
    /\ \/ /\ children' = children \cup {CurChild}
          /\ spawned' = TRUE
          /\ pc' = "run_write"
          /\ UNCHANGED ret
       \/ /\ ret' = Some(Err("spawn: os error"))
          /\ pc' = "run_ret"
          /\ UNCHANGED << children, spawned >>
    /\ UNCHANGED env_vars
    /\ UNCHANGED << ti, ci, input, output, result, errors, started,
                    invoked, outcomes, last_log, notif, exit_code >>
    /\ spawn_task' = ti
    /\ UNCHANGED resolved
    /\ UNCHANGED fn_vars

\* ShBuilder::run, lines 159-163: write_all of the payload; an empty payload
\* writes nothing and cannot fail; on Err the child is dropped, not waited for
RunWrite ==
    /\ pc = "run_write"
    /\ \/ /\ pc' = "run_wait"
          /\ UNCHANGED << children, ret >>
       \/ /\ CurCmd.input # << >>
          /\ ret' = Some(Err("write: os error"))
          /\ children' = (children \ {CurChild}) \cup {Dropped(CurChild)}
          /\ pc' = "run_ret"
    /\ UNCHANGED env_vars
    /\ UNCHANGED << ti, ci, input, output, result, errors, started,
                    invoked, outcomes, spawned, last_log, notif, exit_code >>
    /\ UNCHANGED << resolved, spawn_task >>
    /\ UNCHANGED fn_vars

\* ShBuilder::run, line 165: wait_with_output closes stdin, drains stdout and
\* stderr and reaps the child; a failed wait finds no child left to reap
RunWait ==
    /\ pc = "run_wait"
    /\ children' = children \ {CurChild}
    /\ \/ /\ \E out \in ChildOutputs : output' = Some(out)
          /\ pc' = "run_check"
          /\ UNCHANGED ret
       \/ /\ ret' = Some(Err("wait: os error"))
          /\ pc' = "run_ret"
          /\ UNCHANGED output
    /\ UNCHANGED env_vars
    /\ UNCHANGED << ti, ci, input, result, errors, started, invoked,
                    outcomes, spawned, last_log, notif, exit_code >>
    /\ UNCHANGED << resolved, spawn_task >>
    /\ UNCHANGED fn_vars

\* ShBuilder::run, lines 167-173: the status check
RunCheck ==
    /\ pc = "run_check"
    /\ ret' = Some(run_result(CurCmd.check, output[1]))
    /\ pc' = "run_ret"
    /\ UNCHANGED env_vars
    /\ UNCHANGED << ti, ci, input, children, output, result, errors,
                    started, invoked, outcomes, spawned, last_log, notif, exit_code >>
    /\ UNCHANGED << resolved, spawn_task >>
    /\ UNCHANGED fn_vars

\* The caller's `?` on run's result (lines 226-230, 234, 262-265, 270, 299-301):
\* an Err ends the task's operation, an Ok goes on to its next command or, after
\* the last one, to its closing log line and Ok(())
RunReturn ==
    /\ pc = "run_ret"
    /\ output' = None
    /\ ret' = None
    /\ IF ~ret[1].ok
       THEN /\ result' = ret[1]
            /\ pc' = "task_end"
            /\ UNCHANGED << ci, last_log >>
       ELSE IF ci < Len(CurCmds)
       THEN /\ ci' = ci + 1
            /\ pc' = "run_log"
            /\ UNCHANGED << result, last_log >>
       ELSE /\ result' = Ok
            /\ pc' = "task_end"
            /\ last_log' =
                 IF CurTask.kind = "fs"
                 THEN Log("info", "Backed up local filesystem to",
                          << CurTask.config.restic_repository >>, << >>)
                 ELSE IF CurTask.kind = "wsl"
                 THEN Log("info", "Backed up WSL filesystem to",
                          << CurTask.config.restic_repository >>, << >>)
                 ELSE last_log
            /\ UNCHANGED ci
    /\ UNCHANGED env_vars
    /\ UNCHANGED << ti, input, children, errors, started, invoked,
                    outcomes, spawned, notif, exit_code >>
    /\ UNCHANGED << resolved, spawn_task >>
    /\ UNCHANGED fn_vars

\* try_task propagating a failure: the rest of the sequence is skipped
TryTaskFinish_propagate ==
    /\ pc = "task_end"
    /\ errors' = try_task_errors(errors, CurTask.name, task_dur, result)
    /\ last_log' = try_task_log(CurTask.name, task_dur, result)
    /\ outcomes' = Append(outcomes,
                          IF result.ok THEN [ok |-> TRUE, dur |-> << >>, err |-> ""]
                          ELSE [ok |-> FALSE, dur |-> pretty_duration(task_dur),
                                err |-> result.err])
    /\ result' = Ok
    /\ ci' = 0
    /\ input' = << >>
    /\ IF ti < Len(Tasks) /\ result.ok
       THEN /\ ti' = ti + 1
            /\ pc' = "try_task"
       ELSE /\ pc' = "notify"
            /\ UNCHANGED ti
    /\ UNCHANGED env_vars
    /\ UNCHANGED << children, output, ret, started, invoked, spawned,
                    notif, exit_code >>
    /\ resolved' = None
    /\ UNCHANGED spawn_task
    /\ UNCHANGED fn_vars

\* try_task, lines 210-222, then the next try_task call of the sequence, or
\* do_backup's return to main after the last one
TryTaskFinish ==
    /\ pc = "task_end"
    /\ errors' = try_task_errors(errors, CurTask.name, task_dur, result)
    /\ last_log' = try_task_log(CurTask.name, task_dur, result)
    /\ outcomes' = Append(outcomes,
                          IF result.ok THEN [ok |-> TRUE, dur |-> << >>, err |-> ""]
                          ELSE [ok |-> FALSE, dur |-> pretty_duration(task_dur),
                                err |-> result.err])
    /\ result' = Ok
    /\ ci' = 0
    /\ input' = << >>
    /\ IF ti < Len(Tasks)
       THEN /\ ti' = ti + 1
            /\ pc' = "try_task"
       ELSE /\ pc' = "notify"
            /\ UNCHANGED ti
    /\ UNCHANGED env_vars
    /\ UNCHANGED << children, output, ret, started, invoked, spawned,
                    notif, exit_code >>
    /\ resolved' = None
    /\ UNCHANGED spawn_task
    /\ UNCHANGED fn_vars

\* main, lines 416-434: build subject and body, call notify, return
Notify ==
    /\ pc = "notify"
    /\ \E delivered \in BOOLEAN :
        /\ notif' = Append(notif,
                           [subject |-> Subject(IF is_windows THEN "Windows" ELSE "macOS",
                                                errors),
                            body |-> Body(pretty_duration(run_dur), errors),
                            delivered |-> delivered])
        /\ exit_code' = Some(ExitCode(delivered))
    /\ pc' = "exit"
    /\ UNCHANGED env_vars
    /\ UNCHANGED << ti, ci, input, children, output, ret, result,
                    errors, started, invoked, outcomes, spawned, last_log >>
    /\ UNCHANGED << resolved, spawn_task >>
    /\ UNCHANGED fn_vars

Next ==
    \/ ParseArgs
    \/ LoadConfig
    \/ TryTaskStart
    \/ ResolveTargets
    \/ RunLog
    \/ RunSpawn
    \/ RunWrite
    \/ RunWait
    \/ RunCheck
    \/ RunReturn
    \/ TryTaskFinish
    \/ Notify

Spec == Init /\ [][Next]_vars

\* ------------------------------------------- restic_config_to_env on its own
\* Every ResticConfig the struct can hold over a few field values.
Repositories == { "Z:\\restic", "/mnt/c/restic", "s3:s3.amazonaws.com/bucket" }

Passwords == { "hunter2", "correct horse" }

OptKeyIds == { None, Some("AKIAEXAMPLE"), Some("AKIAOTHER") }

OptSecrets == { None, Some("s3cr3t"), Some("0th3r") }

ResticConfigs ==
    { ResticConfig(r, p, k, s) :
        r \in Repositories, p \in Passwords, k \in OptKeyIds, s \in OptSecrets }

InitEnv ==
    /\ fn_in \in ResticConfigs
    /\ fn_out = None
    /\ os_arg = None
    /\ penv = {}
    /\ wslenv_var = None
    /\ task_dur = 0
    /\ run_dur = 0
    /\ RunInit

ApplyConfigToEnv ==
    /\ fn_out = None
    /\ fn_out' = Some(restic_config_to_env(fn_in))
    /\ UNCHANGED << fn_in, run_vars >>

NextEnv == ApplyConfigToEnv

SpecEnv == InitEnv /\ [][NextEnv]_vars

\* ------------------------------------------------------------- properties
ValidOs == os_arg \in { Some("windows"), Some("macos") }

ConfigLoaded == penv = ConfigVarSet

\* do_backup has returned to main
Returned == pc \in { "notify", "exit" }

\* The finished tasks whose operation returned Err, in the order they ran.
FailedSeq ==
    SelectSeq([k \in 1..Len(outcomes) |-> k], LAMBDA k : ~outcomes[k].ok)

\* The formatted message of the j-th failure of the run.
FailureMessage(j) ==
    ErrStr(Tasks[FailedSeq[j]].name, outcomes[FailedSeq[j]].dur,
           outcomes[FailedSeq[j]].err)

\* C1 (task isolation): no task's operation is invoked twice; the error list
\* holds one entry per finished task that failed, in order, carrying that task's
\* name and error, and none for a task that succeeded; and when the batch is
\* over every task of it has been invoked, whichever tasks failed.
C1_TaskIsolation ==
    (ValidOs /\ ConfigLoaded) =>
        /\ \A i, j \in 1..Len(invoked) : i # j => invoked[i] # invoked[j]
        /\ Len(errors) = Len(FailedSeq)
        /\ \A j \in 1..Len(errors) :
            /\ errors[j].name = Tasks[FailedSeq[j]].name
            /\ errors[j].text = outcomes[FailedSeq[j]].err
        /\ Returned =>
            /\ invoked = [k \in 1..Len(Tasks) |-> k]
            /\ Len(outcomes) = Len(Tasks)

\* A Windows run is over in which tasks 1 and 4 failed and 2, 3, 5 succeeded.
C1_Witness ==
    /\ pc = "exit"
    /\ is_windows
    /\ Len(outcomes) = 5
    /\ ~outcomes[1].ok /\ outcomes[2].ok /\ outcomes[3].ok
    /\ ~outcomes[4].ok /\ outcomes[5].ok
    /\ Len(errors) = 2
    /\ Len(invoked) = 5

\* Where a task's backup goes: the cloud repository of the configuration, or
\* one of the two local repositories, which carry no cloud credentials.
Dest(task) ==
    CASE task.kind \in { "win_upgrades", "mac_upgrades" } -> "none"
      [] task.kind \notin { "win_upgrades", "mac_upgrades" }
         /\ task.config = cloud_config -> "cloud"
      [] task.kind \notin { "win_upgrades", "mac_upgrades" }
         /\ task.config # cloud_config
         /\ task.config.restic_repository \in { "Z:\\restic", "/mnt/c/restic" }
         /\ task.config.aws_access_key_id = None
         /\ task.config.aws_secret_access_key = None -> "local"
      [] OTHER -> "unknown"

Stage(task) == << task.kind, Dest(task) >>

ExpectedStages ==
    IF is_windows
    THEN << << "win_upgrades", "none" >>, << "fs", "local" >>, << "wsl", "local" >>,
            << "fs", "cloud" >>, << "wsl", "cloud" >> >>
    ELSE << << "mac_upgrades", "none" >>, << "fs", "cloud" >> >>

\* C2 (fixed task sequence): once the configuration has loaded, the tasks
\* started so far are always the first ones of the fixed order (upgrades, the
\* backups to the local repository, the backups to the cloud repository), and
\* when the run reaches the notification every one of them has been started,
\* whichever tasks failed.
C2_FixedSequence ==
    (ValidOs /\ ConfigLoaded) =>
        /\ Len(started) <= Len(ExpectedStages)
        /\ \A i \in 1..Len(started) :
            /\ started[i] = i
            /\ Stage(Tasks[i]) = ExpectedStages[i]
        /\ Returned => Len(started) = Len(ExpectedStages)

\* A Windows run in which every task failed has started all five and is done.
C2_Witness ==
    /\ pc = "exit"
    /\ is_windows
    /\ Len(started) = 5
    /\ Len(outcomes) = 5
    /\ \A k \in 1..5 : ~outcomes[k].ok

\* C3 (pre-flight short-circuit): when a required configuration variable is
\* missing, no task is ever started, no child is ever spawned, and once
\* do_backup has returned the run reports exactly one error.
C3_PreflightShortCircuit ==
    (ValidOs /\ ~ConfigLoaded) =>
        /\ started = << >>
        /\ invoked = << >>
        /\ ~spawned
        /\ children = {}
        /\ Returned => Len(errors) = 1
        /\ notif # << >> => notif[1].subject.count = 1

\* A run without the cloud secret key has ended with its notification.
C3_Witness ==
    /\ pc = "exit"
    /\ is_windows
    /\ penv = ConfigVarSet \ { "BACKUPER_AWS_SECRET_ACCESS_KEY" }
    /\ Len(errors) = 1
    /\ notif # << >>

C5_SingleNotification ==
    /\ Len(notif) <= 1
    /\ ~Returned => notif = << >>
    /\ (ValidOs /\ ConfigLoaded /\ notif # << >>) =>
        /\ Len(outcomes) = Len(Tasks)
        /\ Len(started) = Len(Tasks)
        /\ pc = "exit"
    /\ (ValidOs /\ ConfigLoaded /\ pc = "exit") => Len(notif) = 1

\* A Windows run with a failure in its first and in its last task has sent its
\* one notification.
C5_Witness ==
    /\ pc = "exit"
    /\ is_windows
    /\ ConfigLoaded
    /\ Len(notif) = 1
    /\ Len(outcomes) = 5
    /\ ~outcomes[1].ok
    /\ ~outcomes[5].ok

\* C6 (exit code independence): in a run with a valid OS argument the exit code
\* is decided by the delivery of the notification alone, 0 when it is delivered,
\* whichever tasks failed.
C6_ExitCodeIndependence ==
    (ValidOs /\ pc = "exit") =>
        /\ Len(notif) = 1
        /\ notif[1].delivered => exit_code = Some(0)
        /\ ~notif[1].delivered => exit_code = Some(1)

\* A run in which tasks failed and the notification was delivered exits with 0.
C6_Witness ==
    /\ pc = "exit"
    /\ ValidOs
    /\ ConfigLoaded
    /\ Len(FailedSeq) >= 2
    /\ notif[1].delivered
    /\ exit_code = Some(0)

\* What C7 says of one notification: success exactly when the error list is
\* empty, otherwise the count of the failed tasks, worded "error" for one, and
\* the formatted message of every failed task in the order the tasks ran.
ReportsTasks(n) ==
    /\ n.subject.outcome = "succeeded" <=> errors = << >>
    /\ errors # << >> =>
        /\ n.subject.outcome = "failed!"
        /\ n.subject.count = Len(FailedSeq)
        /\ n.subject.word = (IF Len(FailedSeq) = 1 THEN "error" ELSE "errors")
        /\ n.body.lines = [j \in 1..Len(FailedSeq) |-> FailureMessage(j)]

C8_FailurePolicy ==
    (pc = "run_ret" /\ output # None) =>
        LET out == output[1]
            r   == ret[1]
        IN  /\ out.status = 0 => r.ok
            /\ (~CurCmd.check /\ out.status # 0) => r.ok
            /\ (CurCmd.check /\ out.status # 0) => (~r.ok /\ r.err = out.stderr)

\* C9 (child process lifecycle): whenever no Command Runner call is between
\* its spawn and its return, every child spawned so far has been waited for and
\* its handles are closed; in particular none is outstanding when run returns
\* or when the next task starts.
C9_ChildLifecycle ==
    pc \notin { "run_write", "run_wait", "run_check" } => children = {}

\* C10 (credential derivation is all-or-nothing): the derived pairs are 4 when
\* both cloud credentials are set and 2 otherwise, and never hold one cloud
\* credential without the other.
C10_AllOrNothing ==
    fn_out # None =>
        LET env   == fn_out[1]
            names == { env[i][1] : i \in 1..Len(env) }
            both  == /\ fn_in.aws_access_key_id # None
                     /\ fn_in.aws_secret_access_key # None
        IN  /\ Len(env) = (IF both THEN 4 ELSE 2)
            /\ "AWS_ACCESS_KEY_ID" \in names <=> "AWS_SECRET_ACCESS_KEY" \in names

\* ------------------------------------------------- functions on their own
\* The run is not started while a function is applied on its own.
FnRunInit ==
    /\ os_arg = None
    /\ penv = {}
    /\ wslenv_var = None
    /\ task_dur = 0
    /\ run_dur = 0
    /\ RunInit

\* env::var("WSLENV"): unset, empty, two names, or a list that already holds
\* the name of a credential
WslEnvInputs ==
    { None, Some(<< >>), Some(<< "A", ":", "B" >>),
      Some(<< "A", ":", "RESTIC_PASSWORD" >>) }

InitWsl ==
    /\ fn_in \in [config : ResticConfigs, wslenv : WslEnvInputs]
    /\ fn_out = None
    /\ FnRunInit

ApplyWslAllowList ==
    /\ fn_out = None
    /\ fn_out' = Some(wsl_allow_list(fn_in.wslenv, restic_config_to_env(fn_in.config)))
    /\ UNCHANGED << fn_in, run_vars >>

NextWsl == ApplyWslAllowList

SpecWsl == InitWsl /\ [][NextWsl]_vars

\* Durations up to MaxDays days and a day more, around the unit boundaries, with
\* and without a sub-second part.
MaxDays == 1

SampleDurations ==
    { [secs |-> d * 86400 + h * 3600 + m * 60 + s, subsec_nanos |-> ns] :
        d \in 0..MaxDays, h \in { 0, 1, 23 }, m \in { 0, 1, 59 },
        s \in { 0, 1, 59 }, ns \in { 0, 999999999 } }

InitFmt ==
    /\ fn_in \in SampleDurations
    /\ fn_out = None
    /\ FnRunInit

ApplyPrettyDuration ==
    /\ fn_out = None
    /\ fn_out' = Some(pretty_duration(as_secs(fn_in)))
    /\ UNCHANGED << fn_in, run_vars >>

NextFmt == ApplyPrettyDuration

SpecFmt == InitFmt /\ [][NextFmt]_vars

\* Pattern lists of up to MaxPatterns entries of EXCLUDE_PATTERNS, repeats allowed.
MaxPatterns == 3

PatternLists ==
    UNION { [1..n -> { EXCLUDE_PATTERNS[i] : i \in 1..Len(EXCLUDE_PATTERNS) }] :
            n \in 0..MaxPatterns }

InitExcl ==
    /\ fn_in \in PatternLists
    /\ fn_out = None
    /\ FnRunInit

ApplyGenExcludeFlags ==
    /\ fn_out = None
    /\ fn_out' = Some(gen_exclude_flags(fn_in))
    /\ UNCHANGED << fn_in, run_vars >>

NextExcl == ApplyGenExcludeFlags

SpecExcl == InitExcl /\ [][NextExcl]_vars

\* The names of a colon-separated list: what stands between its colons, the
\* empty name where nothing does.
RECURSIVE SegmentsFrom(_, _, _)
SegmentsFrom(tokens, cur, acc) ==
    IF tokens = << >> THEN Append(acc, cur)
    ELSE IF Head(tokens) = ":" THEN SegmentsFrom(Tail(tokens), "", Append(acc, cur))
    ELSE SegmentsFrom(Tail(tokens), Head(tokens), acc)

Segments(tokens) == SegmentsFrom(tokens, "", << >>)

Occurrences(seq, x) == Cardinality({ i \in 1..Len(seq) : seq[i] = x })

\* C11 (allow-list forwarding): the updated allow-list holds every name of the
\* existing list, the name of every credential pair and the name WSLENV itself,
\* each exactly once, and nothing else, whatever the existing value is.
C11_AllowListForwarding ==
    fn_out # None =>
        LET pairs    == restic_config_to_env(fn_in.config)
            existing == { n \in { Segments(unwrap_or_default(fn_in.wslenv))[i] :
                                  i \in 1..Len(Segments(unwrap_or_default(fn_in.wslenv))) } :
                          n # "" }
            required == existing \cup { pairs[i][1] : i \in 1..Len(pairs) }
                        \cup { "WSLENV" }
            updated  == Segments(fn_out[1])
        IN  /\ \A n \in required : Occurrences(updated, n) = 1
            /\ \A i \in 1..Len(updated) : updated[i] \in required

\* ------------------------------------------------------------ C12 .. C20
\* The run is inside ShBuilder::run for the current command.
InRun == pc \in { "run_log", "run_spawn", "run_write", "run_wait", "run_check", "run_ret" }

\* The values held by the fields of a ResticConfig.
FieldValues(config) ==
    { config.restic_repository, config.restic_password }
    \cup { config.aws_access_key_id[i] : i \in 1..Len(config.aws_access_key_id) }
    \cup { config.aws_secret_access_key[i] : i \in 1..Len(config.aws_secret_access_key) }

\* The field values of every configuration a task of the run is given.
ConfigValues ==
    UNION { FieldValues(Tasks[k].config) :
            k \in { j \in 1..Len(Tasks) : Tasks[j].config # NoConfig } }

\* C12 (secrets never logged): no log line of a run interpolates the value of a
\* field of a repository configuration (repository URI, passphrase, key id,
\* secret key), and no command of the run carries one in its argument vector.
C12_SecretsNeverLogged ==
    (ValidOs /\ ConfigLoaded /\ pc # "main") =>
        /\ last_log # NoLog =>
               \A i \in 1..Len(last_log.args) : last_log.args[i] \notin ConfigValues
        /\ (InRun /\ ti > 0 /\ ci > 0) =>
               \A i \in 1..Len(CurCmd.cmd) : CurCmd.cmd[i] \notin ConfigValues

\* The log line ShBuilder::run writes for the current command.
RunningLine == Log("info", "Running:", CurCmd.cmd, << >>)

\* C13 (log before spawn): whenever an invocation of run is at its spawn or
\* past it, whatever the spawn, the write, the wait or the check then yield,
\* the log line of that command has already been written, and no line after it.
C13_LogBeforeSpawn ==
    (pc \in { "run_spawn", "run_write", "run_wait", "run_check", "run_ret" }) =>
        last_log = RunningLine

\* A spawn has failed for a second command of an operation, after its own log line.
C13_Witness ==
    /\ pc = "run_ret"
    /\ ci = 2
    /\ ret = Some(Err("spawn: os error"))
    /\ last_log = RunningLine

\* The command a child of the run was spawned for.
ChildCmd(c) == TaskCmds(Tasks[c.task], input, wslenv_var)[c.cmd]

IsUpgrade(task) == task.kind \in { "win_upgrades", "mac_upgrades" }

\* C14 (output mode of upgrade commands): a child spawned for a command of a
\* package-upgrade task has no stdin payload and inherits the parent's stdout
\* and stderr; a child spawned for a command of a backup task has the two
\* captured through pipes.
C14_UpgradeOutputMode ==
    ValidOs =>
        \A c \in children :
            IF IsUpgrade(Tasks[c.task])
            THEN /\ c.task = ti => ChildCmd(c).input = << >>
                 /\ c.stdio.stdout = "inherit"
                 /\ c.stdio.stderr = "inherit"
            ELSE /\ c.stdio.stdout = "piped"
                 /\ c.stdio.stderr = "piped"

\* The home directory could not be determined while the current task's targets
\* were resolved.
HomeFailed == resolved # None /\ ~resolved[1].ok

\* C15 (home-directory failure is atomic): when the home directory cannot be
\* determined, the resolution yields no path list, whole or partial; the task's
\* operation returns that failure at once, with no stdin payload built and no
\* spawn attempted for the task; the failure becomes exactly one entry of the
\* error list, under the task's name; and the tasks after it are still run.
C15_HomeFailureAtomic ==
    (ValidOs /\ ConfigLoaded) =>
        /\ HomeFailed =>
            /\ resolved[1].val = << >>
            /\ input = << >>
            /\ pc = "task_end"
            /\ result = Err("Failed to get home dir")
            /\ spawn_task # ti
            /\ \A c \in children : c.task # ti
        /\ \A k \in 1..Len(outcomes) :
            (~outcomes[k].ok /\ outcomes[k].err = "Failed to get home dir") =>
                /\ Cardinality({ j \in 1..Len(FailedSeq) : FailedSeq[j] = k }) = 1
                /\ \A j \in 1..Len(FailedSeq) :
                       FailedSeq[j] = k =>
                           /\ j <= Len(errors)
                           /\ errors[j] = FailureMessage(j)
        /\ Returned => invoked = [k \in 1..Len(Tasks) |-> k]

\* A Windows run is over whose local filesystem backup failed for want of a
\* home directory, the only failure of the run: the four tasks after it ran.
C15_Witness ==
    /\ pc = "exit"
    /\ is_windows
    /\ Len(outcomes) = 5
    /\ ~outcomes[2].ok
    /\ outcomes[2].err = "Failed to get home dir"
    /\ outcomes[3].ok
    /\ spawn_task = 5
    /\ Len(errors) = 1

\* The seconds a printed unit stands for.
UnitSecs(unit) ==
    CASE unit = "sec" -> 1
      [] unit = "min" -> 60
      [] unit = "hr"  -> 3600
      [] unit = "d"   -> 86400

\* The printed fields read back into seconds.
RECURSIVE Recombine(_)
Recombine(fields) ==
    IF fields = << >> THEN 0
    ELSE Head(fields).n * UnitSecs(Head(fields).unit) + Recombine(Tail(fields))

Units(fields) == [i \in 1..Len(fields) |-> fields[i].unit]

Field(n, unit) == [n |-> n, unit |-> unit]

\* C16 (duration formatting round-trips): the printed fields of a duration add
\* up to its whole seconds, the sub-second part dropped; only the seconds are
\* printed below a minute, minutes and seconds below an hour, hours, minutes
\* and seconds below a day, and days, hours, minutes and seconds from a day
\* on; 0 s prints "0sec", 61 s "1min 1sec", 3661 s "1hr 1min 1sec" and
\* 90000 s "1d 1hr 0min 0sec".
C16_DurationRoundTrip ==
    fn_out # None =>
        LET d == fn_in.secs
            f == fn_out[1]
        IN  /\ Recombine(f) = d
            /\ Units(f) = IF d < 60 THEN << "sec" >>
                          ELSE IF d < 3600 THEN << "min", "sec" >>
                          ELSE IF d < 86400 THEN << "hr", "min", "sec" >>
                          ELSE << "d", "hr", "min", "sec" >>
            /\ d = 0 => f = << Field(0, "sec") >>
            /\ d = 61 => f = << Field(1, "min"), Field(1, "sec") >>
            /\ d = 3661 => f = << Field(1, "hr"), Field(1, "min"), Field(1, "sec") >>
            /\ d = 90000 => f = << Field(1, "d"), Field(1, "hr"), Field(0, "min"),
                                   Field(0, "sec") >>

\* 90000 s and a fraction has been printed with its four fields.
C16_Witness ==
    /\ fn_in = [secs |-> 90000, subsec_nanos |-> 999999999]
    /\ fn_out = Some(<< Field(1, "d"), Field(1, "hr"), Field(0, "min"), Field(0, "sec") >>)

\* C17 (exclude-flag generation): for n patterns gen_exclude_flags returns the
\* 2n entries --exclude, p1, ..., --exclude, pn, the patterns in their order,
\* and the empty list for none.
C17_ExcludeFlags ==
    fn_out # None =>
        LET n     == Len(fn_in)
            flags == fn_out[1]
        IN  /\ Len(flags) = 2 * n
            /\ \A i \in 1..n :
                /\ flags[2 * i - 1] = "--exclude"
                /\ flags[2 * i] = fn_in[i]
            /\ n = 0 => flags = << >>

\* The flags of three patterns, the first two different, have been generated.
C17_Witness ==
    /\ fn_out # None
    /\ Len(fn_in) = 3
    /\ fn_in[1] # fn_in[2]
    /\ Len(fn_out[1]) = 6

\* C18 (WSL cleanup is non-failing): in a WSL backup task the cleanup command,
\* the first of the two, returns Ok to the task whatever its spawn, its write,
\* its wait or its exit status yield, so the task never fails on it and always
\* goes on to the nested backup command.
C18_CleanupNonFailing ==
    (ValidOs /\ ConfigLoaded /\ ti > 0 /\ ti <= Len(Tasks) /\ Tasks[ti].kind = "wsl") =>
        /\ (pc = "run_ret" /\ ci = 1) => ret[1].ok
        /\ (pc = "task_end" /\ ~result.ok) => ci = 2

\* new_list is old_list with exactly one entry added at its end.
AppendsOne(old_list, new_list) ==
    /\ Len(new_list) = Len(old_list) + 1
    /\ SubSeq(new_list, 1, Len(old_list)) = old_list

\* C19 (error list is append-only): no step of a run removes, reorders or
\* rewrites an entry of the error list: a step leaves the list as it is or adds
\* one entry at its end.  In a run whose tasks execute, the only step that adds
\* one is the end of a task whose operation failed, the end of a task that
\* succeeded leaves the list unchanged, and after every step the length
\* of the list is the number of finished tasks that failed.
C19_AppendOnly ==
    [][ /\ errors' = errors \/ AppendsOne(errors, errors')
        /\ (ValidOs /\ ConfigLoaded) =>
            /\ IF pc = "task_end" /\ ~result.ok
               THEN AppendsOne(errors, errors')
               ELSE errors' = errors
            /\ Len(errors') = Len(FailedSeq') ]_vars

\* Two failed tasks have added their entries in order and a third task, which
\* succeeded, has left the list as it was.
C19_Witness ==
    /\ ValidOs /\ ConfigLoaded
    /\ Len(outcomes) = 3
    /\ ~outcomes[1].ok /\ ~outcomes[2].ok /\ outcomes[3].ok
    /\ Len(errors) = 2
    /\ errors[1].name = Tasks[1].name
    /\ errors[2].name = Tasks[2].name

\* C20 (error entries identify their task): every entry of the error list
\* carries a display name that exactly one task of the run's sequence has, so
\* the entry tells which task failed; on Windows a local backup and a cloud
\* backup that fail carry different names.
C20_EntriesIdentifyTask ==
    (ValidOs /\ ConfigLoaded) =>
        \A j \in 1..Len(errors) :
            Cardinality({ k \in 1..Len(Tasks) : Tasks[k].name = errors[j].name }) = 1

====
